---- MODULE Spec2Model ----
(***************************************************************************)
(* Model of the product cache and the bulk ingestion controller of          *)
(* src/server.js (SaunaBot): CACHE / cacheSetLimited, ensureProductByHandle,*)
(* withTimeout / withRetry, BULK, runBulkIngest and the /ingest routes.     *)
(*                                                                          *)
(* Node runs one macrotask at a time: an action of this model is one        *)
(* macrotask together with the microtasks it queues, i.e. the code between  *)
(* two suspension points (a network call or a timer).                       *)
(***************************************************************************)
EXTENDS Integers, Sequences, FiniteSets, Bags, TLC

(* ------------------------------ bounds -------------------------------- *)
\* CACHE_LIMIT is 1000 in the source (server.js:1113); the model runs the
\* same code with a small capacity so that eviction happens.
CACHE_LIMIT == 2
\* INGEST_CONCURRENCY and INGEST_RETRIES are read from the environment
\* (server.js:34, 36); the model runs with these configured values.
INGEST_CONCURRENCY == 2
INGEST_RETRIES == 1
\* how many runBulkIngest invocations a behaviour may make
MaxJobs == 2
\* ensureProductByHandle calls that may be suspended at once outside tasks
MaxEnsures == 2
\* /ingest/all requests that may be suspended in listAllProductHandles
MaxListing == 1
\* record contents a product page may produce (the page can change)
MaxVer == 2

(* ------------------------------ inputs -------------------------------- *)
\* "" is the handle that JavaScript treats as falsy
EMPTY == ""
\* handles a bulk list can contain: filter(Boolean) at server.js:1615 and
\* `if (p?.handle)` at server.js:1510 keep the empty handle out
BulkHandles == {"a", "b"}
\* handles ensureProductByHandle can be called with
Handles == BulkHandles \cup {EMPTY}
Versions == 1..MaxVer
NULL == [handle |-> "null", ver |-> 0]
Rec(h, v) == [handle |-> h, ver |-> v]

\* second path segments of the requests GET /ingest/<segment>
PathSegs == {"a", "all", "status"}

\* the handle lists a start request carries or the catalog returns: a single
\* handle, two distinct handles, and a list with a duplicate that is longer
\* than the concurrency limit
HandleLists == {<<"b">>, <<"a", "b">>, <<"a", "b", "a">>, << >>}
\* the values of the limit query parameter (0: absent)
Limits == {0, 1}

Min(a, b) == IF a < b THEN a ELSE b

VARIABLES
  CACHE,         \* Map handle -> record, as the sequence of its entries in insertion order
  BULK,          \* the bulk job singleton, server.js:1487
  jobs,          \* per runBulkIngest invocation: its main loop's position, its `active`,
                 \* and the INGEST_RETRIES the process was configured with
  tasks,         \* bag of dispatched tasks suspended in a fetch or a backoff sleep
  pacers,        \* bag of job ids: finally-blocks suspended in sleep(INGEST_BATCH_DELAY_MS)
  ensures,       \* bag of ensureProductByHandle calls suspended in their page fetch
  listing,       \* number of /ingest/all requests suspended in listAllProductHandles
  ev             \* what the last step returned to its caller (NoEv for an internal step)

vars == <<CACHE, BULK, jobs, tasks, pacers, ensures, listing, ev>>

JobIds == 1..MaxJobs

Ev(op, h, out, rec) == [op |-> op, h |-> h, out |-> out, rec |-> rec]
NoEv == Ev("none", EMPTY, "", NULL)

(* ------------------------------ the cache ----------------------------- *)
CacheKeys(c) == {c[i].key : i \in 1..Len(c)}
CacheHas(c, k) == k \in CacheKeys(c)
CacheGet(c, k) == c[CHOOSE i \in 1..Len(c) : c[i].key = k].rec
\* Map.set: an existing key keeps its position, a new key goes last
MapSet(c, k, r) ==
  IF CacheHas(c, k)
  THEN [i \in 1..Len(c) |-> IF c[i].key = k THEN [key |-> k, rec |-> r] ELSE c[i]]
  ELSE Append(c, [key |-> k, rec |-> r])
\* JavaScript truthiness of a string key
Truthy(k) == k # EMPTY

\* a slip: the entry is only stored when nothing had to be evicted
cacheSetLimited_SetOnlyIfRoom(c, handle, prod) ==
  IF Len(c) >= CACHE_LIMIT /\ Len(c) > 0 /\ Truthy(c[1].key)
  THEN Tail(c)
  ELSE MapSet(c, handle, prod)

cacheSetLimited(c, handle, prod) ==
  LET c1 == IF Len(c) >= CACHE_LIMIT /\ Len(c) > 0 /\ Truthy(c[1].key)
            THEN Tail(c) ELSE c
  IN MapSet(c1, handle, prod)

(* ------------------------------ initial state ------------------------- *)
Init ==
  /\ CACHE = << >>
  /\ BULK = [running |-> FALSE, cancelled |-> FALSE, total |-> 0, done |-> 0,
             failed |-> 0, queue |-> << >>, inFlight |-> {}, errors |-> << >>,
             startedAt |-> FALSE, endedAt |-> FALSE]
  /\ jobs = [j \in JobIds |-> [st |-> "none", active |-> 0, retries |-> INGEST_RETRIES]]
  /\ tasks = EmptyBag
  /\ pacers = EmptyBag
  /\ ensures = EmptyBag
  /\ listing = 0
  /\ ev = NoEv

(* ------------------ ensureProductByHandle outside tasks --------------- *)
\* a suspended call of ensureProductByHandle: the handle and who awaits it
\* ("req": a request handler, "orphan": nobody, the call was made by a task
\* attempt that withTimeout has already rejected)
Ens(h, src) == [h |-> h, src |-> src]
NEnsures == BagCardinality(ensures)

\* a slip: the call never consults the cache
Resolve_NoCacheCheck(h) ==
  /\ h \in Handles \cup PathSegs
  /\ NEnsures < MaxEnsures
  /\ ensures' = ensures (+) SetToBag({Ens(h, "req")})
  /\ ev' = Ev("resolve", h, "fetching", NULL)
  /\ UNCHANGED <<CACHE, BULK, jobs, tasks, pacers, listing>>

\* A request handler calls ensureProductByHandle(h): GET /ingest/:handle
\* (h is then non-empty) or a chat-side caller such as server.js:576-580,
\* whose handles come from search results and are not checked for emptiness.
\* A cached handle is answered without suspension.
Resolve(h) ==
  /\ h \in Handles \cup PathSegs
  /\ IF CacheHas(CACHE, h)
     THEN /\ ev' = Ev("resolve", h, "hit", CacheGet(CACHE, h))
          /\ UNCHANGED ensures
     ELSE /\ NEnsures < MaxEnsures
          /\ ensures' = ensures (+) SetToBag({Ens(h, "req")})
          /\ ev' = Ev("resolve", h, "fetching", NULL)
  /\ UNCHANGED <<CACHE, BULK, jobs, tasks, pacers, listing>>

\* the page fetch succeeds: fetchProductUltra returns a record,
\* ensureProductByHandle inserts it and hands it to its caller
EnsureOk(e, v) ==
  /\ BagIn(e, ensures)
  /\ v \in Versions
  /\ ensures' = ensures (-) SetToBag({e})
  /\ CACHE' = cacheSetLimited(CACHE, e.h, Rec(e.h, v))
  /\ ev' = IF e.src = "req" THEN Ev("resolve", e.h, "ok", Rec(e.h, v)) ELSE NoEv
  /\ UNCHANGED <<BULK, jobs, tasks, pacers, listing>>

\* the page fetch answers non-2xx: fetchProductUltra returns null
EnsureNull(e) ==
  /\ BagIn(e, ensures)
  /\ ensures' = ensures (-) SetToBag({e})
  /\ ev' = IF e.src = "req" THEN Ev("resolve", e.h, "null", NULL) ELSE NoEv
  /\ UNCHANGED <<CACHE, BULK, jobs, tasks, pacers, listing>>

\* the page fetch rejects (network error): fetchProductUltra throws
EnsureThrow(e) ==
  /\ BagIn(e, ensures)
  /\ ensures' = ensures (-) SetToBag({e})
  /\ ev' = IF e.src = "req" THEN Ev("resolve", e.h, "throw", NULL) ELSE NoEv
  /\ UNCHANGED <<CACHE, BULK, jobs, tasks, pacers, listing>>

\* the status GET /ingest/:handle answers with for a result of the call
RouteStatus(e) ==
  IF e.out = "throw" THEN 500 ELSE IF e.rec = NULL THEN 404 ELSE 200

(* ------------------------- bulk ingest: helpers ----------------------- *)
\* The bulk code of one macrotask works on the machine state m: the shared
\* BULK and CACHE, every invocation's `active`, the suspended tasks and
\* finally-blocks, and `hits`, the attempts that found their handle cached
\* and finish in this macrotask's microtasks.
Machine ==
  [bulk |-> BULK, jobs |-> jobs, tasks |-> tasks, pacers |-> pacers,
   cache |-> CACHE, hits |-> << >>]

\* String(e?.message || e): the text of an error message is not modelled
ErrMsg == "error"

\* a task is suspended in attempt i of withRetry: in the page fetch, or in
\* the sleep(300 + i * 300) that follows a failed attempt
Task(j, h, phase, i) ==
  [job |-> j, handle |-> h, phase |-> phase, i |-> i,
   sleep |-> IF phase = "backoff" THEN 300 + i * 300 ELSE 0]

\* attempt i of withRetry calls ingestHandleOnce(handle): ensureProductByHandle
\* answers a cached handle at once, otherwise the attempt suspends in the fetch
attempt(m, j, h, i) ==
  IF CacheHas(m.cache, h)
  THEN [m EXCEPT !.hits = Append(@, [job |-> j, handle |-> h,
                                      rec |-> CacheGet(m.cache, h)])]
  ELSE [m EXCEPT !.tasks = @ (+) SetToBag({Task(j, h, "fetch", i)})]

\* a slip: the cancellation flag is not consulted
canDispatch_IgnoreCancel(m, j) ==
  /\ Len(m.bulk.queue) > 0
  /\ m.jobs[j].active < INGEST_CONCURRENCY

\* the three conditions of lines 1540-1542, 1558 and 1562
canDispatch(m, j) ==
  /\ ~m.bulk.cancelled
  /\ Len(m.bulk.queue) > 0
  /\ m.jobs[j].active < INGEST_CONCURRENCY

\* a slip: the handle is taken from the end of the queue (pop for shift)
next_TakesLast(m, j) ==
  IF ~canDispatch(m, j) THEN m
  ELSE LET handle == m.bulk.queue[Len(m.bulk.queue)]
           m1 == [m EXCEPT !.bulk.queue = SubSeq(@, 1, Len(@) - 1),
                           !.jobs[j].active = @ + 1,
                           !.bulk.inFlight = @ \cup {handle}]
       IN attempt(m1, j, handle, 0)

\* next() of invocation j
next(m, j) ==
  IF ~canDispatch(m, j) THEN m
  ELSE LET handle == Head(m.bulk.queue)
           m1 == [m EXCEPT !.bulk.queue = Tail(@),
                           !.jobs[j].active = @ + 1,
                           !.bulk.inFlight = @ \cup {handle}]
       IN attempt(m1, j, handle, 0)

\* a slip: the finally block frees the slot but dispatches nothing
finally_NoRedispatch(m, j, h) ==
  [m EXCEPT !.jobs[j].active = @ - 1, !.bulk.inFlight = @ \ {h}]

\* the finally block of a task, up to its pacing sleep
finally(m, j, h) ==
  LET m1 == [m EXCEPT !.jobs[j].active = @ - 1, !.bulk.inFlight = @ \ {h}]
  IN IF canDispatch(m1, j) THEN [m1 EXCEPT !.pacers = @ (+) SetToBag({j})] ELSE m1

\* ingestHandleOnce after ensureProductByHandle returned prod, then BULK.done++
succeed(m, j, h, prod) ==
  finally([m EXCEPT !.cache = cacheSetLimited(@, h, prod),
                    !.bulk.done = @ + 1], j, h)

\* a slip: the loop's test lets one attempt more through
failAttempt_OneMoreAttempt(m, j, h, i, err) ==
  IF i <= m.jobs[j].retries
  THEN [m EXCEPT !.tasks = @ (+) SetToBag({Task(j, h, "backoff", i)})]
  ELSE finally([m EXCEPT !.bulk.failed = @ + 1,
                         !.bulk.errors = Append(@, [handle |-> h, error |-> err])],
               j, h)

\* withRetry's catch for attempt i, and the task's catch after the last attempt
failAttempt(m, j, h, i, err) ==
  IF i < m.jobs[j].retries
  THEN [m EXCEPT !.tasks = @ (+) SetToBag({Task(j, h, "backoff", i)})]
  ELSE finally([m EXCEPT !.bulk.failed = @ + 1,
                         !.bulk.errors = Append(@, [handle |-> h, error |-> err])],
               j, h)

\* the microtasks of the attempts that found their handle cached
RECURSIVE settle(_)
settle(m) ==
  IF m.hits = << >> THEN m
  ELSE LET x == Head(m.hits)
       IN settle(succeed([m EXCEPT !.hits = Tail(@)], x.job, x.handle, x.rec))

\* for (let i = 0; i < Math.min(INGEST_CONCURRENCY, BULK.queue.length); i++) next();
RECURSIVE startLoop(_, _, _)
startLoop(m, j, i) ==
  IF i < Min(INGEST_CONCURRENCY, Len(m.bulk.queue))
  THEN startLoop(next(m, j), j, i + 1)
  ELSE m

\* while (!BULK.cancelled && BULK.queue.length && active < INGEST_CONCURRENCY) next();
RECURSIVE drain(_, _)
drain(m, j) == IF canDispatch(m, j) THEN drain(next(m, j), j) ELSE m

\* runBulkIngest(handles) as invocation j, up to the first sleep of its main loop
runBulkIngest(m, j, handles) ==
  LET m0 == [m EXCEPT !.bulk = [running |-> TRUE, cancelled |-> FALSE,
                                total |-> Len(handles), done |-> 0, failed |-> 0,
                                errors |-> << >>, queue |-> handles, inFlight |-> {},
                                startedAt |-> TRUE, endedAt |-> FALSE],
                      !.jobs[j] = [@ EXCEPT !.st = "polling", !.active = 0]]
  IN settle(startLoop(m0, j, 0))

Apply(m) ==
  /\ BULK' = m.bulk
  /\ jobs' = m.jobs
  /\ tasks' = m.tasks
  /\ pacers' = m.pacers
  /\ CACHE' = m.cache

FreeJobs == {j \in JobIds : jobs[j].st = "none"}
NewJob == CHOOSE j \in FreeJobs : \A k \in FreeJobs : j <= k

Range(q) == {q[i] : i \in 1..Len(q)}
\* Array.from(new Set(handles))
RECURSIVE Dedup(_)
Dedup(q) ==
  IF q = << >> THEN << >>
  ELSE LET r == Dedup(SubSeq(q, 1, Len(q) - 1))
           x == q[Len(q)]
       IN IF x \in Range(r) THEN r ELSE Append(r, x)
\* if (limit && limit > 0) handles = handles.slice(0, limit);
Limit(q, n) == IF n > 0 THEN SubSeq(q, 1, Min(n, Len(q))) ELSE q

(* ------------------------- bulk ingest: routes ------------------------ *)
\* GET /ingest/all?handles=...: the whole handler runs without suspension
StartExplicit(list, limit) ==
  /\ list \in HandleLists /\ Len(list) > 0
  /\ limit \in Limits
  /\ IF BULK.running
     THEN /\ ev' = Ev("start", EMPTY, "409", NULL)
          /\ UNCHANGED <<CACHE, BULK, jobs, tasks, pacers>>
     ELSE /\ FreeJobs # {}
          /\ Apply(runBulkIngest(Machine, NewJob, Limit(list, limit)))
          /\ ev' = Ev("start", EMPTY, "202", NULL)
  /\ UNCHANGED <<ensures, listing>>

\* GET /ingest/all without handles, up to `await listAllProductHandles()`
StartCatalog ==
  /\ IF BULK.running
     THEN /\ ev' = Ev("start", EMPTY, "409", NULL)
          /\ UNCHANGED listing
     ELSE /\ listing < MaxListing
          /\ listing' = listing + 1
          /\ ev' = NoEv
  /\ UNCHANGED <<CACHE, BULK, jobs, tasks, pacers, ensures>>

\* listAllProductHandles returned the catalog's handles: the rest of the handler
CatalogListed(raw, limit) ==
  /\ listing > 0
  /\ raw \in HandleLists
  /\ limit \in Limits
  /\ listing' = listing - 1
  /\ LET handles == Limit(Dedup(raw), limit)
     IN IF handles = << >>
        THEN /\ ev' = Ev("start", EMPTY, "404", NULL)
             /\ UNCHANGED <<CACHE, BULK, jobs, tasks, pacers>>
        ELSE /\ FreeJobs # {}
             /\ Apply(runBulkIngest(Machine, NewJob, handles))
             /\ ev' = Ev("start", EMPTY, "202", NULL)
  /\ UNCHANGED ensures

\* a catalog page fetch rejected: the handler's catch answers 500
CatalogThrows ==
  /\ listing > 0
  /\ listing' = listing - 1
  /\ ev' = Ev("start", EMPTY, "500", NULL)
  /\ UNCHANGED <<CACHE, BULK, jobs, tasks, pacers, ensures>>

\* a slip: the flag is set whether or not a job is running
Cancel_Unguarded ==
  /\ BULK' = [BULK EXCEPT !.cancelled = TRUE]
  /\ ev' = Ev("cancel", EMPTY, IF BULK.running THEN "requested" ELSE "none", NULL)
  /\ UNCHANGED <<CACHE, jobs, tasks, pacers, ensures, listing>>

\* POST /ingest/cancel
Cancel ==
  /\ IF ~BULK.running
     THEN /\ ev' = Ev("cancel", EMPTY, "none", NULL)
          /\ UNCHANGED BULK
     ELSE /\ BULK' = [BULK EXCEPT !.cancelled = TRUE]
          /\ ev' = Ev("cancel", EMPTY, "requested", NULL)
  /\ UNCHANGED <<CACHE, jobs, tasks, pacers, ensures, listing>>

(* ------------------------- bulk ingest: tasks ------------------------- *)
Without(t) == [Machine EXCEPT !.tasks = @ (-) SetToBag({t})]
\* what a failed attempt of task t amounts to: a retry, or the task's failure
AttemptFailed(t) ==
  IF t.i < jobs[t.job].retries THEN NoEv ELSE Ev("task", EMPTY, "failed", NULL)

\* the page fetch of an attempt succeeds: ensureProductByHandle inserts the
\* record, ingestHandleOnce writes it again, the task counts as done
TaskOk(t, v) ==
  /\ BagIn(t, tasks) /\ t.phase = "fetch"
  /\ v \in Versions
  /\ LET prod == Rec(t.handle, v)
         m1 == [Without(t) EXCEPT !.cache = cacheSetLimited(@, t.handle, prod)]
     IN Apply(succeed(m1, t.job, t.handle, prod))
  /\ ev' = Ev("task", EMPTY, "done", NULL)
  /\ UNCHANGED <<ensures, listing>>

\* the page fetch answers non-2xx: ingestHandleOnce throws "No product for ..."
TaskNull(t) ==
  /\ BagIn(t, tasks) /\ t.phase = "fetch"
  /\ Apply(failAttempt(Without(t), t.job, t.handle, t.i, ErrMsg))
  /\ ev' = AttemptFailed(t)
  /\ UNCHANGED <<ensures, listing>>

\* the page fetch rejects with a network error
TaskThrow(t) ==
  /\ BagIn(t, tasks) /\ t.phase = "fetch"
  /\ Apply(failAttempt(Without(t), t.job, t.handle, t.i, ErrMsg))
  /\ ev' = AttemptFailed(t)
  /\ UNCHANGED <<ensures, listing>>

\* withTimeout's timer fires first: the attempt fails, the call of
\* ensureProductByHandle stays suspended (kept), unless its fetch never returns
TaskTimeout(t, kept) ==
  /\ BagIn(t, tasks) /\ t.phase = "fetch"
  /\ kept \in BOOLEAN
  /\ Apply(failAttempt(Without(t), t.job, t.handle, t.i, ErrMsg))
  /\ IF kept
     THEN /\ NEnsures < MaxEnsures
          /\ ensures' = ensures (+) SetToBag({Ens(t.handle, "orphan")})
     ELSE UNCHANGED ensures
  /\ ev' = AttemptFailed(t)
  /\ UNCHANGED listing

\* the backoff sleep of withRetry is over: the next attempt begins
TaskRetry(t) ==
  /\ BagIn(t, tasks) /\ t.phase = "backoff"
  /\ Apply(settle(attempt(Without(t), t.job, t.handle, t.i + 1)))
  /\ ev' = NoEv
  /\ UNCHANGED <<ensures, listing>>

\* the pacing sleep of a finally block is over: next(), then the while loop
PacerWake(j) ==
  /\ BagIn(j, pacers)
  /\ Apply(settle(drain(next([Machine EXCEPT !.pacers = @ (-) SetToBag({j})], j), j)))
  /\ ev' = NoEv
  /\ UNCHANGED <<ensures, listing>>

\* the main loop of invocation j wakes from sleep(200) and finds its condition false
JobPoll(j) ==
  /\ jobs[j].st = "polling"
  /\ ~(~BULK.cancelled /\ (BULK.done + BULK.failed < BULK.total \/ jobs[j].active > 0))
  /\ BULK' = [BULK EXCEPT !.running = FALSE, !.endedAt = TRUE]
  /\ jobs' = [jobs EXCEPT ![j].st = "ended"]
  /\ ev' = NoEv
  /\ UNCHANGED <<CACHE, tasks, pacers, ensures, listing>>

(* ------------------------- the Express router ------------------------ *)
\* how many entries of the error log the status route shows
ErrorsPreview == 10
\* arr.slice(-n)
SliceLast(q, n) == IF Len(q) <= n THEN q ELSE SubSeq(q, Len(q) - n + 1, Len(q))

\* how many entries of the error log runBulkIngest returns: 20 in the source
\* (server.js:1579); the model runs with a small number so that a job can
\* fail more handles than that
ErrorsSample == 2
\* arr.slice(0, n)
SliceFirst(q, n) == SubSeq(q, 1, Min(n, Len(q)))
\* what runBulkIngest returns when its main loop has ended
BulkResult(b) ==
  [total |-> b.total, done |-> b.done, failed |-> b.failed,
   errors |-> SliceFirst(b.errors, ErrorsSample)]

\* the body of the answer of GET /ingest/status
StatusSnapshot(b) ==
  [running |-> b.running, cancelled |-> b.cancelled, total |-> b.total,
   done |-> b.done, failed |-> b.failed, inFlight |-> b.inFlight,
   queued |-> Len(b.queue), startedAt |-> b.startedAt, endedAt |-> b.endedAt,
   errors_preview |-> SliceLast(b.errors, ErrorsPreview)]

\* the handler of GET /ingest/status
Status ==
  /\ ev' = Ev("status", EMPTY, "200", StatusSnapshot(BULK))
  /\ UNCHANGED <<CACHE, BULK, jobs, tasks, pacers, ensures, listing>>

\* the /ingest routes in the order in which app.get / app.post register them
Routes ==
  <<[method |-> "GET",  pattern |-> <<"ingest", ":handle">>, handler |-> "ingestHandle"],
    [method |-> "GET",  pattern |-> <<"ingest", "all">>,     handler |-> "ingestAll"],
    [method |-> "GET",  pattern |-> <<"ingest", "status">>,  handler |-> "ingestStatus"],
    [method |-> "POST", pattern |-> <<"ingest", "cancel">>,  handler |-> "ingestCancel"]>>
\* a pattern segment that is a named parameter matches any segment
Params == {":handle"}
Matches(route, method, path) ==
  /\ route.method = method
  /\ Len(route.pattern) = Len(path)
  /\ \A i \in 1..Len(path) : route.pattern[i] \in Params \/ route.pattern[i] = path[i]
\* Express hands a request to the first registered route that matches it;
\* none of these handlers calls next(), so no later route sees the request
Matching(method, path) == {i \in 1..Len(Routes) : Matches(Routes[i], method, path)}
Dispatch(method, path) ==
  IF Matching(method, path) = {} THEN "none"
  ELSE Routes[CHOOSE i \in Matching(method, path) :
                \A k \in Matching(method, path) : i <= k].handler

\* no route matches: Express answers 404
NoRoute ==
  /\ ev' = Ev("http", EMPTY, "404", NULL)
  /\ UNCHANGED <<CACHE, BULK, jobs, tasks, pacers, ensures, listing>>

\* the request GET /ingest/<seg>?handles=<q> (q empty: no handles parameter)
HttpGet(seg, q) ==
  /\ seg \in PathSegs
  /\ q \in HandleLists
  /\ LET handler == Dispatch("GET", <<"ingest", seg>>)
     IN CASE handler = "ingestHandle" -> Resolve(seg)
          [] handler = "ingestAll" -> IF q # << >> THEN StartExplicit(q, 0) ELSE StartCatalog
          [] handler = "ingestStatus" -> Status
          [] OTHER -> NoRoute

\* the request POST /ingest/<seg>
HttpPost(seg) ==
  /\ seg \in {"cancel", "all"}
  /\ LET handler == Dispatch("POST", <<"ingest", seg>>)
     IN CASE handler = "ingestCancel" -> Cancel
          [] OTHER -> NoRoute

(* ------------------ the CSS-styling filter of specifications ---------- *)
\* A candidate's text is a sequence of tokens, so that the regular
\* expressions are computed on it. Value tokens: "d" a run of digits, "w" a
\* run of letters that is no unit, "sp" white space, "q" a double quote, the
\* units "px" "%" "in", and "calc(", "!important", "var(".
ValueToks == {"d", "w", "sp", "q", "px", "%", "in", "calc(", "!important", "var("}
\* tokens whose first / last character is a word character (\w)
StartsWord == {"d", "w", "px", "in", "calc(", "var("}
EndsWord == {"d", "w", "px", "in", "!important"}
MaxValueLen == 3
SeqsUpTo(S, n) == UNION {[1..k -> S] : k \in 0..n}
Values == SeqsUpTo(ValueToks, MaxValueLen) \ {<< >>}
\* key tokens: words in two spellings, and word parts
KeyToks == {"margin", "Margin", "width", "max-", "-top", "capacity"}
MaxKeyLen == 2
Keys == SeqsUpTo(KeyToks, MaxKeyLen) \ {<< >>}
\* String.prototype.toLowerCase / the i flag, on key tokens
LowerTok(t) == IF t = "Margin" THEN "margin" ELSE IF t = "A" THEN "a" ELSE t

\* \b before position i and after position j of v
BoundaryBefore(v, i) == (i > 1 /\ v[i - 1] \in EndsWord) # (v[i] \in StartsWord)
BoundaryAfter(v, j) == (v[j] \in EndsWord) # (j < Len(v) /\ v[j + 1] \in StartsWord)
\* \b\d+ matched on positions i..j
Numeral(v, i, j) ==
  /\ i <= j /\ j <= Len(v)
  /\ \A k \in i..j : v[k] = "d"
  /\ BoundaryBefore(v, i)

\* the alternatives of CSS_PROP_RX that the key tokens can spell; the
\* expression is anchored at both ends
CssPropWords == {"width", "max-", "margin"}
CSS_PROP_RX(key) == Len(key) = 1 /\ LowerTok(key[1]) \in CssPropWords
\* /\b\d+(\.\d+)?(px|%|vw|vh|rem|em)\b|calc\(|!important|^var\(/i
CssUnits == {"px", "%"}
CSS_VALUE_RX(v) ==
  \/ \E i \in 1..Len(v), j \in 1..Len(v) :
       /\ Numeral(v, i, j) /\ j < Len(v)
       /\ v[j + 1] \in CssUnits /\ BoundaryAfter(v, j + 1)
  \/ \E i \in 1..Len(v) : v[i] \in {"calc(", "!important"}
  \/ v[1] = "var("
\* /\b\d+(\.\d+)?\s*(in(?:ches)?|cm|mm|ft|feet)\b|[""]/i
MeasureUnits == {"in"}
MEASURE_RX(v) ==
  \/ \E i \in 1..Len(v), j \in 1..Len(v), k \in 1..Len(v) :
       /\ Numeral(v, i, j) /\ j < k
       /\ \A s \in (j + 1)..(k - 1) : v[s] = "sp"
       /\ v[k] \in MeasureUnits /\ BoundaryAfter(v, k)
  \/ \E i \in 1..Len(v) : v[i] = "q"

isLikelyCssPair(kv) ==
  IF MEASURE_RX(kv.value) THEN FALSE
  ELSE IF CSS_PROP_RX(kv.key) THEN TRUE
  ELSE IF (kv.key \in {<<"width">>}) /\ CSS_VALUE_RX(kv.value) THEN TRUE
  ELSE CSS_VALUE_RX(kv.value)

\* the server at rest, as at Init, whatever ev holds
Idle ==
  /\ CACHE = << >>
  /\ BULK = [running |-> FALSE, cancelled |-> FALSE, total |-> 0, done |-> 0,
             failed |-> 0, queue |-> << >>, inFlight |-> {}, errors |-> << >>,
             startedAt |-> FALSE, endedAt |-> FALSE]
  /\ jobs = [j \in JobIds |-> [st |-> "none", active |-> 0, retries |-> INGEST_RETRIES]]
  /\ tasks = EmptyBag /\ pacers = EmptyBag /\ ensures = EmptyBag
  /\ listing = 0

\* filterOutCssPairs applied to the candidate that the mining produced
FilterCss ==
  /\ ev.op = "candidate"
  /\ LET kv == [key |-> ev.h, value |-> ev.rec]
     IN ev' = Ev("css", kv.key, IF isLikelyCssPair(kv) THEN "rejected" ELSE "retained",
                 kv.value)
  /\ UNCHANGED <<CACHE, BULK, jobs, tasks, pacers, ensures, listing>>

(* --------------------- specification dedup --------------------------- *)
\* table cells taken as they are (key && value is the only test): a letter in
\* two cases and the character the signature uses as separator
CellChars == {"a", "A", "="}
MaxCellLen == 2
Cells == SeqsUpTo(CellChars, MaxCellLen)
Pairs == {[key |-> k, value |-> v] : k \in Cells, v \in Cells}
MaxPairs == 2
PairLists == SeqsUpTo(Pairs, MaxPairs)
toLowerCase(s) == [i \in 1..Len(s) |-> LowerTok(s[i])]
\* `${kv.key}=${kv.value}`.toLowerCase()
Sig(kv) == toLowerCase(kv.key \o <<"=">> \o kv.value)
\* the loop of dedupeKV from position i, with the signatures seen so far
RECURSIVE dedupeKVFrom(_, _, _)
dedupeKVFrom(arr, i, seen) ==
  IF i > Len(arr) THEN << >>
  ELSE IF arr[i].key = << >> \/ arr[i].value = << >>
         THEN dedupeKVFrom(arr, i + 1, seen)
  ELSE IF Sig(arr[i]) \in seen THEN dedupeKVFrom(arr, i + 1, seen)
  ELSE <<arr[i]>> \o dedupeKVFrom(arr, i + 1, seen \cup {Sig(arr[i])})
dedupeKV(arr) == dedupeKVFrom(arr, 1, {})
NotCssPair(kv) == ~isLikelyCssPair(kv)
filterOutCssPairs(arr) == SelectSeq(arr, NotCssPair)
\* sections.specifications = filterOutCssPairs(dedupeKV(sections.specifications))
DedupeSpecs ==
  /\ ev.op = "candidates"
  /\ ev' = Ev("specifications", ev.h, filterOutCssPairs(dedupeKV(ev.rec)), ev.rec)
  /\ UNCHANGED <<CACHE, BULK, jobs, tasks, pacers, ensures, listing>>

(* ------------------------ paged catalog scans ------------------------ *)
\* searchProductsByKeyword, searchProductsByAnyWord and listAllProductHandles
\* read /products.json page by page. A scan in progress is held in ev: its
\* kind, where it is suspended, and its local variables.
ScanKinds == {"keyword", "anyword", "listing"}
\* items of a full page: 250 in the source (limit=250 and the test
\* items.length < 250); the model runs the same code with a small page
PageSize == 2
\* maxPages: 5 for the two searches and 50 for the listing in the source
SearchPages == 2
ListingPages == 3
maxPages(kind) == IF kind = "listing" THEN ListingPages ELSE SearchPages
\* maxResults: 8 in the source
MaxResults == 2
\* a product of a page: its handle, and whether the searched words match it
\* (titles are not modelled: all titles have the same length)
Items == {[handle |-> h, hit |-> b] : h \in Handles, b \in BOOLEAN}
Pages == SeqsUpTo(Items, PageSize)
Scan(page, requests, acc, last, value) ==
  [page |-> page, requests |-> requests, acc |-> acc, last |-> last, value |-> value]
\* the handles a search has pushed so far, as its `seen` set holds them
Seen(acc) == {LowerTok(acc[i]) : i \in 1..Len(acc)}
\* the for-loop over the items of a page in searchProductsByKeyword; it
\* stops when maxResults results are gathered
RECURSIVE keywordItems(_, _, _)
keywordItems(items, i, acc) ==
  IF i > Len(items) \/ Len(acc) >= MaxResults THEN acc
  ELSE IF items[i].hit /\ LowerTok(items[i].handle) \notin Seen(acc)
       THEN keywordItems(items, i + 1, Append(acc, items[i].handle))
       ELSE keywordItems(items, i + 1, acc)
\* the for-loop over the items of a page in searchProductsByAnyWord
RECURSIVE anyWordItems(_, _, _)
anyWordItems(items, i, acc) ==
  IF i > Len(items) THEN acc
  ELSE IF items[i].hit /\ LowerTok(items[i].handle) \notin Seen(acc)
       THEN anyWordItems(items, i + 1, Append(acc, items[i].handle))
       ELSE anyWordItems(items, i + 1, acc)
\* for (const p of items) if (p?.handle) handles.push(p.handle);
RECURSIVE listingItems(_, _, _)
listingItems(items, i, acc) ==
  IF i > Len(items) THEN acc
  ELSE IF Truthy(items[i].handle)
       THEN listingItems(items, i + 1, Append(acc, items[i].handle))
       ELSE listingItems(items, i + 1, acc)
pageItems(kind, items, acc) ==
  CASE kind = "keyword" -> keywordItems(items, 1, acc)
    [] kind = "anyword" -> anyWordItems(items, 1, acc)
    [] OTHER -> listingItems(items, 1, acc)
\* what the scan returns when its loop has ended: the results, the scored
\* list sorted (a stable sort of equal scores) and cut, the distinct handles
scanResult(kind, acc) ==
  CASE kind = "keyword" -> acc
    [] kind = "anyword" -> SliceFirst(acc, MaxResults)
    [] OTHER -> Dedup(acc)

\* the scan is called: the loop begins and requests page 1
ScanBegin ==
  /\ ev.op = "scan" /\ ev.out = "call"
  /\ ev' = Ev("scan", ev.h, "fetch", Scan(1, 1, << >>, "none", << >>))
  /\ UNCHANGED <<CACHE, BULK, jobs, tasks, pacers, ensures, listing>>

\* the page request is answered 2xx with items: the rest of the loop body
PageOk(items) ==
  /\ ev.op = "scan" /\ ev.out = "fetch"
  /\ items \in Pages
  /\ LET kind == ev.h
         acc == IF items = << >> THEN ev.rec.acc ELSE pageItems(kind, items, ev.rec.acc)
         last == IF items = << >> THEN "empty"
                 ELSE IF Len(items) < PageSize THEN "short" ELSE "full"
         r == [ev.rec EXCEPT !.acc = acc, !.last = last]
     IN IF kind = "keyword" /\ Len(acc) >= MaxResults /\ Len(ev.rec.acc) < MaxResults
        THEN ev' = Ev("scan", kind, "returned", [r EXCEPT !.value = acc])
        ELSE IF last # "full"
        THEN ev' = Ev("scan", kind, "returned", [r EXCEPT !.value = scanResult(kind, acc)])
        ELSE ev' = Ev("scan", kind, "sleep", r)
  /\ UNCHANGED <<CACHE, BULK, jobs, tasks, pacers, ensures, listing>>

\* the page request is answered non-2xx: if (!r.ok) break
PageNotOk ==
  /\ ev.op = "scan" /\ ev.out = "fetch"
  /\ ev' = Ev("scan", ev.h, "returned",
              [ev.rec EXCEPT !.last = "notok", !.value = scanResult(ev.h, ev.rec.acc)])
  /\ UNCHANGED <<CACHE, BULK, jobs, tasks, pacers, ensures, listing>>

\* the page request rejects (network error) or its body is no JSON: the
\* await throws, no try surrounds it, the scan throws
PageRejects ==
  /\ ev.op = "scan" /\ ev.out = "fetch"
  /\ ev' = Ev("scan", ev.h, "thrown", [ev.rec EXCEPT !.last = "rejected"])
  /\ UNCHANGED <<CACHE, BULK, jobs, tasks, pacers, ensures, listing>>

\* the pacing sleep is over: page++, the loop test, the next request
PageSleepOver ==
  /\ ev.op = "scan" /\ ev.out = "sleep"
  /\ IF ev.rec.page + 1 <= maxPages(ev.h)
     THEN ev' = Ev("scan", ev.h, "fetch",
                   [ev.rec EXCEPT !.page = @ + 1, !.requests = @ + 1])
     ELSE ev' = Ev("scan", ev.h, "returned",
                   [ev.rec EXCEPT !.page = @ + 1, !.value = scanResult(ev.h, ev.rec.acc)])
  /\ UNCHANGED <<CACHE, BULK, jobs, tasks, pacers, ensures, listing>>

(* ------------------------- specifications ---------------------------- *)
DoResolve == \E h \in Handles : Resolve(h)
DoEnsureOk == \E e \in BagToSet(ensures), v \in Versions : EnsureOk(e, v)
DoEnsureNull == \E e \in BagToSet(ensures) : EnsureNull(e)
DoEnsureThrow == \E e \in BagToSet(ensures) : EnsureThrow(e)
DoStartExplicit == \E list \in HandleLists, limit \in Limits : StartExplicit(list, limit)
DoCatalogListed == \E raw \in HandleLists, limit \in Limits : CatalogListed(raw, limit)
DoTaskNull == \E t \in BagToSet(tasks) : TaskNull(t)
DoTaskThrow == \E t \in BagToSet(tasks) : TaskThrow(t)
DoTaskRetry == \E t \in BagToSet(tasks) : TaskRetry(t)
DoPacerWake == \E j \in JobIds : PacerWake(j)
DoJobPoll == \E j \in JobIds : JobPoll(j)

\* the whole server: every operation, every input
Next ==
  \/ DoResolve
  \/ DoEnsureOk
  \/ DoEnsureNull
  \/ DoEnsureThrow
  \/ DoStartExplicit
  \/ StartCatalog
  \/ DoCatalogListed
  \/ CatalogThrows
  \/ Cancel
  \/ \E t \in BagToSet(tasks), v \in Versions : TaskOk(t, v)
  \/ DoTaskNull
  \/ DoTaskThrow
  \/ \E t \in BagToSet(tasks), kept \in BOOLEAN : TaskTimeout(t, kept)
  \/ DoTaskRetry
  \/ DoPacerWake
  \/ DoJobPoll

Spec == Init /\ [][Next]_vars

\* The bulk ingestion controller on its own: start and cancel requests in
\* any order and every outcome of every task, with no other user of the
\* cache. Record contents play no part in the controller (the code only
\* tests a record for presence), so pages do not change here, and a fetch
\* abandoned by its timeout never returns.
NextBulk ==
  \/ DoStartExplicit
  \/ StartCatalog
  \/ DoCatalogListed
  \/ CatalogThrows
  \/ Cancel
  \/ \E t \in BagToSet(tasks) : TaskOk(t, 1)
  \/ DoTaskNull
  \/ DoTaskThrow
  \/ \E t \in BagToSet(tasks) : TaskTimeout(t, FALSE)
  \/ DoTaskRetry
  \/ DoPacerWake
  \/ DoJobPoll

SpecBulk == Init /\ [][NextBulk]_vars

\* The scenario of a handle that always fails: jobs over distinct handles in
\* which every fetch of FailHandle fails and every other fetch succeeds.
FailHandle == "b"
DistinctLists == {q \in HandleLists : Len(q) > 0 /\ Cardinality(Range(q)) = Len(q)}
NextFailB ==
  \/ \E list \in DistinctLists : StartExplicit(list, 0)
  \/ Cancel
  \/ \E t \in BagToSet(tasks) : t.handle # FailHandle /\ TaskOk(t, 1)
  \/ \E t \in BagToSet(tasks) : t.handle = FailHandle /\ TaskNull(t)
  \/ \E t \in BagToSet(tasks) : t.handle = FailHandle /\ TaskThrow(t)
  \/ \E t \in BagToSet(tasks) : t.handle = FailHandle /\ TaskTimeout(t, FALSE)
  \/ DoTaskRetry
  \/ DoPacerWake
  \/ DoJobPoll

SpecFailB == Init /\ [][NextFailB]_vars

\* The cache and its writers: request handlers resolving any handle, and the
\* tasks of one bulk job (never cancelled), with changing pages and with
\* abandoned fetches that return late.
NextCache ==
  \/ DoResolve
  \/ DoEnsureOk
  \/ DoEnsureNull
  \/ DoEnsureThrow
  \/ \E list \in HandleLists : Len(list) > 0 /\ jobs[1].st = "none" /\ StartExplicit(list, 0)
  \/ \E t \in BagToSet(tasks), v \in Versions : TaskOk(t, v)
  \/ DoTaskNull
  \/ DoTaskThrow
  \/ \E t \in BagToSet(tasks), kept \in BOOLEAN : TaskTimeout(t, kept)
  \/ DoTaskRetry
  \/ DoPacerWake
  \/ DoJobPoll

SpecCache == Init /\ [][NextCache]_vars

\* The server as its HTTP clients reach it: every /ingest request goes
\* through the router, and page fetches succeed, answer non-2xx or reject.
DoHttpGet == \E seg \in PathSegs, q \in HandleLists : HttpGet(seg, q)
DoHttpPost == \E seg \in {"cancel", "all"} : HttpPost(seg)
NextHttp ==
  \/ DoHttpGet
  \/ DoHttpPost
  \/ DoEnsureOk
  \/ DoEnsureNull
  \/ DoEnsureThrow

SpecHttp == Init /\ [][NextHttp]_vars

\* The controller without cancellation, under the scheduling Node gives:
\* every timer fires (the pacing sleep, the backoff sleep, the main loop's
\* sleep), and every attempt suspended in its fetch ends, by the fetch's
\* answer or, if that never comes, by the timer of withTimeout. Catalog
\* listings return here (one that throws starts no job).
AttemptEnds ==
  \E t \in BagToSet(tasks) : TaskOk(t, 1) \/ TaskNull(t) \/ TaskThrow(t) \/ TaskTimeout(t, FALSE)
NextLive ==
  \/ \E list \in HandleLists : StartExplicit(list, 0)
  \/ StartCatalog
  \/ \E raw \in HandleLists : CatalogListed(raw, 0)
  \/ AttemptEnds
  \/ DoTaskRetry
  \/ DoPacerWake
  \/ DoJobPoll

SpecLive ==
  /\ Init /\ [][NextLive]_vars
  /\ WF_vars(AttemptEnds) /\ WF_vars(DoTaskRetry)
  /\ WF_vars(DoPacerWake) /\ WF_vars(DoJobPoll)

\* One bulk job over distinct handles on a server at rest, for every number
\* of retries the process can be configured with: every attempt of every
\* task succeeds, answers non-2xx, rejects or runs into its timeout.
MaxRetries == 3
InitRetry ==
  /\ CACHE = << >>
  /\ BULK = [running |-> FALSE, cancelled |-> FALSE, total |-> 0, done |-> 0,
             failed |-> 0, queue |-> << >>, inFlight |-> {}, errors |-> << >>,
             startedAt |-> FALSE, endedAt |-> FALSE]
  /\ \E r \in 0..MaxRetries :
       jobs = [j \in JobIds |-> [st |-> "none", active |-> 0, retries |-> r]]
  /\ tasks = EmptyBag /\ pacers = EmptyBag /\ ensures = EmptyBag
  /\ listing = 0
  /\ ev = NoEv
NextRetry ==
  \/ \E list \in DistinctLists : jobs[1].st = "none" /\ StartExplicit(list, 0)
  \/ \E t \in BagToSet(tasks) : TaskOk(t, 1)
  \/ DoTaskNull
  \/ DoTaskThrow
  \/ \E t \in BagToSet(tasks) : TaskTimeout(t, FALSE)
  \/ DoTaskRetry
  \/ DoPacerWake
  \/ DoJobPoll

SpecRetry == InitRetry /\ [][NextRetry]_vars

\* One paged scan of each kind, on a server at rest, with every answer the
\* store can give to every page request.
InitScan ==
  /\ Idle
  /\ ev \in {Ev("scan", kind, "call", Scan(0, 0, << >>, "none", << >>)) : kind \in ScanKinds}
NextScan ==
  \/ ScanBegin
  \/ \E items \in Pages : PageOk(items)
  \/ PageNotOk
  \/ PageRejects
  \/ PageSleepOver

SpecScan == InitScan /\ [][NextScan]_vars

\* The filters of the extraction pipeline, each applied to every input
\* the mining can hand it.
InitFilter ==
  /\ Idle
  /\ \/ ev \in {Ev("candidate", k, "", v) : k \in Keys, v \in Values}
     \/ ev \in {Ev("candidates", EMPTY, "", l) : l \in PairLists}
NextFilter ==
  \/ FilterCss
  \/ DedupeSpecs

SpecFilter == InitFilter /\ [][NextFilter]_vars

(* ------------------------------ claims -------------------------------- *)
NTasks == BagCardinality(tasks)
Counted == BULK.done + BULK.failed
\* a job is marked Completed in this step
Completes == BULK.running /\ ~BULK'.running

\* C1: at most one bulk job is active at any time, whatever the interleaving
\* of start requests: no second invocation of runBulkIngest begins while the
\* main loop of another one is still running.
ActiveJobs == {j \in JobIds : jobs[j].st = "polling"}
C1_AtMostOneActiveJob == Cardinality(ActiveJobs) <= 1

\* C2: while a bulk job runs, the number of tasks dispatched and not yet
\* resolved is at most INGEST_CONCURRENCY.
C2_InFlightBounded == BULK.running => NTasks <= INGEST_CONCURRENCY

\* C3: when a bulk job that was not cancelled is marked Completed,
\* done + failed equals total.
C3_AccountingAtCompletion ==
  [][(Completes /\ ~BULK'.cancelled) => BULK'.done + BULK'.failed = BULK'.total]_vars

\* C4: a cancellation request sets the cancellation flag, and the flag stays
\* set until a new job is started; while it is set no handle leaves the queue
\* and no task is dispatched, and every task that resolves meanwhile is counted
\* as done or failed.
C4_CancelStopsDispatch ==
  [][/\ (ev'.op = "cancel" /\ ev'.out = "requested") => BULK'.cancelled
     /\ (BULK.cancelled /\ ~BULK'.cancelled) => (ev'.op = "start" /\ ev'.out = "202")
     /\ (BULK.cancelled /\ BULK'.cancelled) =>
          /\ BULK'.queue = BULK.queue
          /\ NTasks' <= NTasks
          /\ NTasks' < NTasks =>
               /\ NTasks' = NTasks - 1
               /\ BULK'.done + BULK'.failed = Counted + 1]_vars
\* a task resolved after cancellation was requested, with handles still queued
C4_Witness == BULK.cancelled /\ ev.op = "task" /\ Len(BULK.queue) > 0

\* C5: done + failed <= total in every state reachable by start, cancel and
\* task-completion events, a job started after a cancelled one included.
C5_CountedWithinTotal == Counted <= BULK.total

\* C6: a job over distinct handles in which FailHandle always fails its fetch
\* and every other handle succeeds completes (uncancelled) with failed = 1,
\* done = total - 1 and exactly one error entry, the one of FailHandle.
C6_FailureIsolated ==
  [][(Completes /\ ~BULK'.cancelled) =>
       /\ BULK'.failed = 1
       /\ BULK'.done = BULK'.total - 1
       /\ BULK'.errors = <<[handle |-> FailHandle, error |-> ErrMsg]>>]_vars

\* C7: the cache never holds more than CACHE_LIMIT entries.
C7_CacheBounded == Len(CACHE) <= CACHE_LIMIT

\* C8: a step that inserts a handle absent from a full cache evicts exactly
\* one entry, the one inserted earliest, and appends the new handle.
KeySeq(c) == [i \in 1..Len(c) |-> c[i].key]
C8_EvictsOldest ==
  [][\A k \in Handles :
       (Len(CACHE) >= CACHE_LIMIT /\ ~CacheHas(CACHE, k) /\ CacheHas(CACHE', k))
         => KeySeq(CACHE') = Append(Tail(KeySeq(CACHE)), k)]_vars

\* C9 as stated: when a resolve of a handle has returned a record and the
\* next resolve of that handle returns with the handle never evicted in
\* between, it returns the identical record without a page fetch of its own.
C9_SecondResolveIdentical ==
  [][(/\ ev.op = "resolve" /\ ev.rec # NULL
      /\ ev'.op = "resolve" /\ ev'.h = ev.h /\ ev'.out # "fetching"
      /\ CacheHas(CACHE, ev.h))
       => (ev'.out = "hit" /\ ev'.rec = ev.rec)]_vars

\* C9 as amended: a request handler starts a page fetch for a handle only
\* while the handle is not cached; and when a resolve of a handle has
\* returned a record, a resolve of that handle that begins next (it does not
\* overlap the first) returns the identical record, fetching nothing and
\* leaving the cache as it is; in general a resolve answered from the cache
\* returns the record cached at that moment and changes nothing.
C9_SequentialResolveIdentical ==
  [][/\ \A h \in Handles :
          CopiesIn(Ens(h, "req"), ensures') > CopiesIn(Ens(h, "req"), ensures)
            => ~CacheHas(CACHE, h)
     /\ (/\ ev.op = "resolve" /\ ev.rec # NULL
         /\ ev'.op = "resolve" /\ ev'.h = ev.h /\ ev'.out # "fetching"
         /\ NEnsures' = NEnsures)
          => (ev'.out = "hit" /\ ev'.rec = ev.rec /\ CACHE' = CACHE)
     /\ (ev'.op = "resolve" /\ ev'.out = "hit")
          => (ev'.rec = CacheGet(CACHE, ev'.h) /\ UNCHANGED <<CACHE, ensures>>)]_vars
\* a second resolve answered from the cache with a record of a changed page
C9_Witness == ev.op = "resolve" /\ ev.out = "hit" /\ ev.rec.ver = MaxVer

\* C10: resolve-or-fetch answers a cached handle with the cached record and
\* no fetch; for a handle that is not cached it fetches; a successful fetch
\* leaves the returned record cached under that handle (status 200); a
\* handle that does not exist yields the absence signal (status 404) and
\* leaves the cache unchanged.
C10_ResolveOrFetch ==
  [][ev'.op = "resolve" =>
       /\ ev'.out = "hit" =>
            /\ CacheHas(CACHE, ev'.h) /\ ev'.rec = CacheGet(CACHE, ev'.h)
            /\ ensures' = ensures /\ CACHE' = CACHE
            /\ RouteStatus(ev') = 200
       /\ ev'.out = "fetching" =>
            /\ ~CacheHas(CACHE, ev'.h)
            /\ ensures' = ensures (+) SetToBag({Ens(ev'.h, "req")})
            /\ CACHE' = CACHE
       /\ ev'.out = "ok" =>
            /\ ev'.rec # NULL /\ ev'.rec.handle = ev'.h
            /\ CacheHas(CACHE', ev'.h) /\ CacheGet(CACHE', ev'.h) = ev'.rec
            /\ RouteStatus(ev') = 200
       /\ ev'.out = "null" =>
            /\ ev'.rec = NULL /\ CACHE' = CACHE
            /\ RouteStatus(ev') = 404]_vars
\* a fetched record was inserted into a full cache and returned
C10_Witness ==
  /\ ev.op = "resolve" /\ ev.out = "ok"
  /\ Len(CACHE) >= CACHE_LIMIT /\ CACHE[Len(CACHE)].key = ev.h

\* C11: a request GET /ingest/all with a non-empty handle list, made while
\* no job is active, begins a bulk job (BULK running, total set to the
\* number of handles) and is answered 202 in the same step, before any task
\* has finished.
C11_StartRequestBeginsJob ==
  [][\A q \in HandleLists :
       (q # << >> /\ ~BULK.running /\ HttpGet("all", q))
         => /\ BULK'.running /\ BULK'.total = Len(q)
            /\ BULK'.done + BULK'.failed = 0
            /\ ev' = Ev("start", EMPTY, "202", NULL)]_vars

\* C12: a request GET /ingest/status is answered with the snapshot of the
\* bulk job state and changes neither that state nor the cache, and starts
\* no fetch.
C12_StatusIsPureRead ==
  [][\A q \in HandleLists :
       HttpGet("status", q)
         => /\ ev' = Ev("status", EMPTY, "200", StatusSnapshot(BULK))
            /\ UNCHANGED <<CACHE, BULK, jobs, tasks, pacers, ensures, listing>>]_vars

\* C13: a request POST /ingest/cancel made while no bulk job is running
\* changes nothing of the bulk job state (flags, counters, queue, in-flight
\* set, error log); made while a job is running it sets the cancellation
\* flag and changes nothing else. Neither touches the cache, the tasks in
\* flight or any suspended call.
C13_CancelFrame ==
  [][HttpPost("cancel") =>
       /\ IF BULK.running
          THEN BULK' = [BULK EXCEPT !.cancelled = TRUE] /\ ev'.out = "requested"
          ELSE BULK' = BULK /\ ev'.out = "none"
       /\ UNCHANGED <<CACHE, jobs, tasks, pacers, ensures, listing>>]_vars
\* cancellation was requested of a running job with a task in flight and
\* handles still queued
C13_Witness ==
  /\ ev.op = "cancel" /\ ev.out = "requested"
  /\ BULK.running /\ BULK.cancelled /\ NTasks > 0 /\ Len(BULK.queue) > 0

\* C14: when a start request (explicit list or catalog listing, no limit)
\* begins a job, the job's total is the number of distinct handles of the
\* submitted list, and each distinct handle is queued or dispatched once.
C14_TotalCountsDistinctHandles ==
  [][\A q \in HandleLists :
       ((StartExplicit(q, 0) \/ CatalogListed(q, 0)) /\ ev'.out = "202")
         => /\ BULK'.total = Cardinality(Range(q))
            /\ Len(BULK'.queue) + jobs'[NewJob].active = Cardinality(Range(q))]_vars

\* C15: the error log of the bulk job never holds more than ErrorsSample
\* entries (20 in the source), and the error sample returned at completion
\* consists of the most recent entries of the log.
C15_ErrorLogBounded ==
  /\ Len(BULK.errors) <= ErrorsSample
  /\ BulkResult(BULK).errors = SliceLast(BULK.errors, ErrorsSample)

\* C16: a failed page fetch never raises: whatever the outcome of the page
\* fetch, the caller of resolve-or-fetch gets a record or the absence
\* signal, never an exception (the route never answers 500).
C16_FetcherNeverRaises ==
  ev.op = "resolve" => (ev.out # "throw" /\ RouteStatus(ev) # 500)

\* C17: without cancellation every started bulk job eventually reaches
\* Completed (its main loop ends, the running flag is cleared and the end
\* timestamp set), whatever fetches fail or never return.
C17_JobCompletes ==
  \A j \in JobIds :
    (jobs[j].st = "polling") ~> (jobs[j].st = "ended" /\ ~BULK.running /\ BULK.endedAt)
\* a job none of whose handles could be fetched has completed
C17_Witness ==
  /\ jobs[1].st = "ended" /\ jobs[2].st = "none"
  /\ ~BULK.running /\ BULK.endedAt /\ BULK.total > 1 /\ BULK.failed = BULK.total

\* C19: the CSS-styling filter rejects a candidate exactly when its value
\* has no physical-measurement shape and its key is a layout/style property
\* name or its value has a CSS value shape (a numeral directly followed by a
\* CSS unit such as px or %, or calc(...), !important, a leading var(...)).
\* The shapes are read off the text here, not taken from the filter.
\* the unit at position j is not the beginning of a longer word
UnitEnds(v, j) == v[j] = "%" \/ ~(j < Len(v) /\ v[j + 1] \in StartsWord)
CssValueShape(v) ==
  \/ \E i \in 1..Len(v), j \in 1..Len(v) :
       Numeral(v, i, j) /\ j < Len(v) /\ v[j + 1] \in CssUnits /\ UnitEnds(v, j + 1)
  \/ \E i \in 1..Len(v) : v[i] \in {"calc(", "!important"}
  \/ v[1] = "var("
C19_CssFilterExact ==
  ev.op = "css" =>
    (ev.out = "rejected" <=>
       (~MEASURE_RX(ev.rec) /\ (CSS_PROP_RX(ev.h) \/ CssValueShape(ev.rec))))

\* the case-folded (key, value) pair of a candidate
Folded(kv) == <<toLowerCase(kv.key), toLowerCase(kv.value)>>
NonEmpty(kv) == kv.key # << >> /\ kv.value # << >>
\* candidate i is the first one with its folded pair
FirstOfItsPair(arr, i) ==
  NonEmpty(arr[i]) /\ \A j \in 1..(i - 1) : NonEmpty(arr[j]) => Folded(arr[j]) # Folded(arr[i])
RECURSIVE FirstOccurrences(_, _)
FirstOccurrences(arr, i) ==
  IF i > Len(arr) THEN << >>
  ELSE (IF FirstOfItsPair(arr, i) THEN <<arr[i]>> ELSE << >>) \o FirstOccurrences(arr, i + 1)
\* C20: specification dedup keeps, in the original order, exactly the first
\* occurrence of each distinct case-folded (key, value) pair among the
\* candidates with non-empty key and value
C20_DedupKeepsFirstOfEachPair ==
  ev.op = "specifications" => ev.out = FirstOccurrences(ev.rec, 1)

\* the tasks of invocation j that are dispatched and not yet resolved
TasksOf(j) == {t \in BagToSet(tasks) : t.job = j}
\* C21: a bulk job is marked Completed (running flag cleared, end timestamp
\* set) only in a state where no task of that job remains in flight, also
\* after a cancellation request.
C21_CompletedOnlyWhenDrained ==
  [][\A j \in JobIds :
       (jobs[j].st = "polling" /\ jobs'[j].st = "ended")
         => (TasksOf(j) = {} /\ jobs[j].active = 0)]_vars

\* the tasks a step takes out of the bag and the tasks it puts in
Removed == BagToSet(tasks (-) tasks')
Added == BagToSet(tasks' (-) tasks)
SameCall(t, u) == t.job = u.job /\ t.handle = u.handle
\* C22: a bulk task makes at most R + 1 attempts; attempt i + 1 begins only
\* when attempt i has failed and the backoff sleep of 300 * (i + 1) ms that
\* followed it is over; an attempt that ends is either the task's success
\* (counted done, once, no further attempt), or a failure followed by a
\* backoff (nothing counted), or the failure of attempt R (counted failed,
\* once); nothing else changes the counters of a job.
C22_RetryDiscipline ==
  [][/\ \A t \in BagToSet(tasks') : t.i <= jobs'[t.job].retries
     /\ \A u \in Added :
          /\ (u.phase = "fetch" /\ u.i > 0) =>
               \E t \in Removed : SameCall(t, u) /\ t.phase = "backoff" /\ t.i = u.i - 1
          /\ u.phase = "backoff" =>
               /\ \E t \in Removed : SameCall(t, u) /\ t.phase = "fetch" /\ t.i = u.i
               /\ u.i < jobs[u.job].retries
               /\ u.sleep = 300 * (u.i + 1)
               /\ BULK'.done = BULK.done /\ BULK'.failed = BULK.failed
     /\ \A t \in Removed :
          t.phase = "fetch" =>
            \/ /\ BULK'.done = BULK.done + 1 /\ BULK'.failed = BULK.failed
               /\ ~\E u \in Added : SameCall(t, u)
            \/ /\ BULK'.done = BULK.done /\ BULK'.failed = BULK.failed
               /\ \E u \in Added : SameCall(t, u) /\ u.phase = "backoff"
            \/ /\ BULK'.done = BULK.done /\ BULK'.failed = BULK.failed + 1
               /\ t.i = jobs[t.job].retries
               /\ ~\E u \in Added : SameCall(t, u)
     /\ (BULK'.done # BULK.done \/ BULK'.failed # BULK.failed) =>
          \E t \in Removed : t.phase = "fetch"]_vars
\* with several retries configured, a handle was counted failed (after
\* backoffs of 300, 600, ... ms) and the other one done
C22_Witness ==
  /\ jobs[1].retries = MaxRetries /\ MaxRetries >= 2
  /\ BULK.failed = 1 /\ BULK.done = 1 /\ ~BULK.running

\* q is what remains of list when its first k handles are taken away
Drop(list, k) == SubSeq(list, k + 1, Len(list))
\* the handles a step dispatches: the new tasks in their first attempt
Dispatched == {u.handle : u \in {x \in Added : x.phase = "fetch" /\ x.i = 0}}
\* the step takes the first k handles of list, in this order, and dispatches
\* each of them: as a task now suspended in its fetch, or finished at once
\* from the cache
TakesPrefix(list, k) ==
  /\ BULK'.queue = Drop(list, k)
  /\ \A i \in 1..k : list[i] \in Dispatched \/ CacheHas(CACHE', list[i])
  /\ Dispatched \subseteq {list[i] : i \in 1..k}
\* C23: handles are dispatched in the order of the submitted list: a start
\* dispatches a prefix of the list and queues the rest in order, and every
\* later step dispatches a prefix of the queue, so that no handle is
\* dispatched while one listed before it still waits, whatever the order in
\* which tasks complete.
C23_DispatchIsFifo ==
  [][/\ (ev'.op = "start" /\ ev'.out = "202") =>
          \A q \in HandleLists, l \in Limits :
            /\ StartExplicit(q, l) => \E k \in 0..Len(q) : TakesPrefix(Limit(q, l), k)
            /\ CatalogListed(q, l) => \E k \in 0..Len(q) : TakesPrefix(Limit(Dedup(q), l), k)
     /\ ~(ev'.op = "start" /\ ev'.out = "202")
          => \E k \in 0..Len(BULK.queue) : TakesPrefix(BULK.queue, k)]_vars
\* of the list a, b, a the first two handles were dispatched at the start;
\* the first one has failed, and the third was dispatched after it while
\* the second is still in flight
C23_Witness ==
  /\ BULK.running /\ ~BULK.cancelled /\ BULK.total = 3
  /\ BULK.queue = << >> /\ BULK.inFlight = {"a", "b"}
  /\ BULK.failed = 1 /\ BULK.done = 0 /\ NTasks = 2

\* C24: an ingestion of a handle that is already cached (a single ingest or
\* a bulk task) fetches the page again, and the record of that fetch takes
\* the place of the cached one: a single ingest of a cached handle begins a
\* fetch, and when its fetch has succeeded the cache holds exactly the
\* fetched record under the handle; a bulk task dispatched for a cached
\* handle is suspended in a fetch of its own.
C24_ReingestReplaces ==
  [][/\ (ev'.op = "resolve" /\ CacheHas(CACHE, ev'.h)) =>
          \/ ev'.out = "fetching"
          \/ ev'.out = "ok" /\ CacheGet(CACHE', ev'.h) = ev'.rec
          \/ ev'.out \in {"null", "throw"}
     /\ ev'.op # "start" =>
          \A i \in 1..(Len(BULK.queue) - Len(BULK'.queue)) :
            CacheHas(CACHE, BULK.queue[i]) => BULK.queue[i] \in Dispatched]_vars

\* C25: a paged scan requests page k + 1 only after page k was answered 2xx
\* with a full page and a pacing sleep, and only while k is below the page
\* limit; a failed, empty or short page ends the scan, which returns the
\* results gathered so far; the page requests never exceed the page limit.
C25_ScanPaging ==
  [][(ev.op = "scan" /\ ev'.op = "scan") =>
       /\ ev'.rec.requests <= maxPages(ev'.h)
       /\ (ev'.rec.requests > ev.rec.requests /\ ev'.rec.page > 1) =>
            /\ ev.out = "sleep" /\ ev.rec.last = "full"
            /\ ev.rec.page < maxPages(ev.h) /\ ev'.rec.page = ev.rec.page + 1
       /\ (ev.out = "fetch" /\ ev'.rec.last # "full") =>
            /\ ev'.out = "returned"
            /\ ev'.rec.value = scanResult(ev'.h, ev'.rec.acc)]_vars

\* C26: tasks left in flight by a cancelled job never affect a job started
\* afterwards: a step in which a task or a pacing sleep of an ended
\* invocation goes on while a later job runs changes nothing of BULK
\* (counters, error log, in-flight set, queue) and dispatches nothing.
C26_StaleTasksInert ==
  [][\A j \in JobIds :
       (/\ jobs[j].st = "ended" /\ BULK.running
        /\ \/ \E t \in Removed : t.job = j
           \/ CopiesIn(j, pacers') < CopiesIn(j, pacers))
         => (BULK' = BULK /\ Dispatched = {})]_vars

\* c2 differs from c1 at most in the record held under handle h
OnlyRecordOf(h, c1, c2) ==
  /\ KeySeq(c2) = KeySeq(c1)
  /\ \A i \in 1..Len(c1) : c1[i].key # h => c2[i] = c1[i]
\* C27: a write of a record for a handle that is already cached changes
\* only that handle's record, also when the cache is full: the fetch of a
\* request that finds its handle cached meanwhile, and the second write of a
\* bulk task, which follows the insertion made by resolve-or-fetch.
C27_RewriteKeepsOthers ==
  [][\A v \in Versions :
       /\ \A e \in BagToSet(ensures) :
            (EnsureOk(e, v) /\ CacheHas(CACHE, e.h)) => OnlyRecordOf(e.h, CACHE, CACHE')
       /\ \A t \in BagToSet(tasks) :
            TaskOk(t, v) =>
              OnlyRecordOf(t.handle, cacheSetLimited(CACHE, t.handle, Rec(t.handle, v)), CACHE')]_vars

\* C28: once an attempt of a bulk task has been failed by its timeout, the
\* abandoned call has no further effect on shared state: when its page
\* fetch returns at last, the cache and the bulk job state stay as they are.
C28_AbandonedAttemptInert ==
  [][\A e \in BagToSet(ensures) :
       (e.src = "orphan" /\ CopiesIn(e, ensures') < CopiesIn(e, ensures))
         => (CACHE' = CACHE /\ BULK' = BULK)]_vars

\* C29: while a bulk job runs, the in-flight set that the status route
\* reports holds exactly the handles of the tasks dispatched and not yet
\* resolved, and has as many members as there are such tasks.
C29_InFlightIsActiveTasks ==
  BULK.running =>
    /\ StatusSnapshot(BULK).inFlight = {t.handle : t \in BagToSet(tasks)}
    /\ Cardinality(StatusSnapshot(BULK).inFlight) = NTasks

\* C30: a start dispatches min(C, n) of the n handles of its list at once;
\* and after every step, while the job runs uncancelled and no pacing delay
\* is pending, handles are queued only when C tasks of the job are active.
C30_BudgetNeverIdle ==
  [][/\ (ev'.op = "start" /\ ev'.out = "202") =>
          BULK'.total - Len(BULK'.queue) = Min(INGEST_CONCURRENCY, BULK'.total)
     /\ (/\ BULK'.running /\ ~BULK'.cancelled
         /\ pacers' = EmptyBag /\ Len(BULK'.queue) > 0)
          => \E j \in JobIds : jobs'[j].st = "polling" /\ jobs'[j].active = INGEST_CONCURRENCY]_vars

====
